---- MODULE Spec2Model ----
(***************************************************************************)
(* The multi-fidelity experiment loop of                                   *)
(* docs/source/examples/notebooks/multi_fidelity.ipynb: the `while COST <  *)
(* COST_BUDGET` cell, the `measure` oracle and the configuration cell.     *)
(* The planner (atlas MultiFidelityPlanner) and the campaign (olympus) are  *)
(* collaborators reached through recommend / recommend_target_fidelity /   *)
(* add_observation; the planner's choices are nondeterministic.            *)
(***************************************************************************)
EXTENDS Integers, Sequences, FiniteSets, TLC

(* ------------------------------ bounds -------------------------------- *)

\* most passes of the while loop a run of the model makes (the code has no
\* such limit: the ledgers grow with every pass)
MaxPasses == 3

\* longest batch planner.recommend returns
MaxBatch == 2

(* --------------------------- configuration ---------------------------- *)

\* the two fidelities (GGA = 0.1, HSE06 = 1.0)
LOW == "0.1"

HIGH == "1.0"

Fidelities == {LOW, HIGH}

\* unit costs of one query: GGA is ten times cheaper than HSE06
LOW_COST == 1

HIGH_COST == 10

UnitCost(s) == IF s = HIGH THEN HIGH_COST ELSE LOW_COST

\* values the configuration cell may hold (the notebook: 50, 10, 8)
BudgetSet == {-1, 0, 50}

InitDesignSet == {1, 10}

CadenceSet == {-2, 0, 1, 2, 8}

\* parameter combinations of the parameter space; "x" has no entry in LOOKUP
AllParams == {"a", "b", "x"}

\* the lookup table: np.amin of the stored bandgaps per combination
LOOKUP ==
    [p \in {"a", "b"} |->
        IF p = "a" THEN [bandgap_gga |-> 1, bandgap_hse06 |-> 2]
                   ELSE [bandgap_gga |-> 2, bandgap_hse06 |-> 3]]

Min(S) == CHOOSE m \in S : \A n \in S : m <= n

\* the lowest hse06 bandgap of the table, the value the loop compares with
min_hse06_bandgap == Min({LOOKUP[p].bandgap_hse06 : p \in DOMAIN LOOKUP})

(* ------------------------------ oracle -------------------------------- *)

Ok(v) == [err |-> "", value |-> v]

Raise(e) == [err |-> e, value |-> 0]

\* def measure(params, s)
Measure(params, s) ==
    IF s = HIGH
    THEN IF params \in DOMAIN LOOKUP
         THEN Ok(LOOKUP[params].bandgap_hse06)
         ELSE Raise("KeyError")
    ELSE IF s = LOW
    THEN IF params \in DOMAIN LOOKUP
         THEN Ok(LOOKUP[params].bandgap_gga)
         ELSE Raise("KeyError")
    ELSE Raise("UnboundLocalError")

(* ------------------------------ planner ------------------------------- *)

Sample(s, p) == [s |-> s, params |-> p]

SamplesAt(s) == {Sample(s, p) : p \in AllParams}

\* what planner.recommend may return after set_ask_fidelity(ask): a batch of
\* any length up to MaxBatch, every sample of it at the requested fidelity
RecommendBatches(ask) ==
    UNION {[1..n -> SamplesAt(ask)] : n \in 0..MaxBatch}

\* what planner.recommend_target_fidelity(batch_size) may return: batch_size
\* samples at the highest fidelity
TargetFidelityBatches(batch_size) == [1..batch_size -> SamplesAt(HIGH)]

(* --------------------------- loop helpers ----------------------------- *)

\* Python's a % b for b # 0 (the result takes the sign of b)
PyMod(a, b) == IF b > 0 THEN a % b ELSE 0 - ((0 - a) % (0 - b))

\* variant: the loop still runs with the cost at the budget
WhileConditionInclusive(cost, budget) == cost <= budget

\* while COST < COST_BUDGET
WhileCondition(cost, budget) == cost < budget

\* variant: the cadence counted from 1 instead of 0
FidelityScheduleOffByOne(i, k) == IF PyMod(i + 1, k) = 0 THEN HIGH ELSE LOW

\* if iter_ % NUM_CHEAP == 0: set_ask_fidelity(1.0) else: set_ask_fidelity(0.1)
FidelitySchedule(i, k) == IF PyMod(i, k) = 0 THEN HIGH ELSE LOW

\* variant: recording an observation refunds its unit cost
CostAfterObservationRefund(cost, s) == cost - UnitCost(s)

\* the for body never assigns COST: the cost after recording an observation
CostAfterObservation(cost, s) == cost

\* variant: the for loop stops after its first sample
AfterSampleFirstOnly(i, batch) == "check"

\* for sample in samples: the next sample, or the code after the loop
AfterSample(i, batch) == IF i = Len(batch) THEN "check" ELSE "for"

\* variant: the campaign keeps only its latest observation
AddObservationReplacing(obs, sample, m) == <<<<sample, m>>>>

\* campaign.add_observation(sample, measurement)
AddObservation(obs, sample, m) == Append(obs, <<sample, m>>)

\* variant: the greedy branch already at num_obs == NUM_INIT_DESIGN
InSteadyStateFromEqual(num_obs, n_init) == num_obs >= n_init

\* if campaign.num_obs > NUM_INIT_DESIGN
InSteadyState(num_obs, n_init) == num_obs > n_init

\* variant: the greedy branch without its break
GreedyNeverConverged(rec_measurement) == FALSE

\* if rec_measurement == min_hse06_bandgap: break
GreedyConverged(rec_measurement) == rec_measurement = min_hse06_bandgap

\* variant: the else branch without its fidelity test
InitDesignConvergedAnyFidelity(m, batch) == m = min_hse06_bandgap

\* if measurement == min_hse06_bandgap and samples[0].s == 1.: break
InitDesignConverged(m, batch) == m = min_hse06_bandgap /\ batch[1].s = HIGH

(* ------------------------------- state -------------------------------- *)

VARIABLES
    COST_BUDGET, NUM_INIT_DESIGN, NUM_CHEAP,  \* the configuration cell
    COST,                     \* accumulated cost
    iter_,                    \* the loop's iteration index
    target_rec_measurements,  \* the target-recommendation trace
    observations,             \* campaign.observations: <<sample, measurement>>
    ask_fidelity,             \* the planner's ask fidelity
    samples,                  \* the batch of the current pass
    idx,                      \* position of the for loop in samples
    measurement,              \* the for loop's variable, unbound until assigned
    pc,                       \* "head", "recommend", "for", "check", "done"
    outcome,                  \* how the loop ended, "RUNNING" until then
    passes,                   \* passes of the loop body begun
    calls,                    \* calls made to the planner and the oracle, and
                              \* the lengths of the batches recommend returned
    phase                     \* branch taken by the last pass

vars == <<COST_BUDGET, NUM_INIT_DESIGN, NUM_CHEAP, COST, iter_,
          target_rec_measurements, observations, ask_fidelity, samples, idx,
          measurement, pc, outcome, passes, calls, phase>>

config == <<COST_BUDGET, NUM_INIT_DESIGN, NUM_CHEAP>>

Unbound == [bound |-> FALSE, value |-> 0]

Bound(v) == [bound |-> TRUE, value |-> v]

Init ==
    /\ COST_BUDGET \in BudgetSet
    /\ NUM_INIT_DESIGN \in InitDesignSet
    /\ NUM_CHEAP \in CadenceSet
    /\ COST = 0
    /\ iter_ = 0
    /\ target_rec_measurements = <<>>
    /\ observations = <<>>
    /\ ask_fidelity = "unset"
    /\ samples = <<>>
    /\ idx = 1
    /\ measurement = Unbound
    /\ pc = "head"
    /\ outcome = "RUNNING"
    /\ passes = 0
    /\ calls = [recommend |-> 0, target |-> 0, measure |-> 0, batches |-> <<>>]
    /\ phase = "INIT_DESIGN"

\* the loop is left: by the while condition, a break or an exception
Leave(how) ==
    /\ pc' = "done"
    /\ outcome' = how

(* ------------------------------ actions ------------------------------- *)

\* while COST < COST_BUDGET: false
BudgetExhausted ==
    /\ pc = "head"
    /\ ~WhileCondition(COST, COST_BUDGET)
    /\ Leave("BUDGET_EXHAUSTED")
    /\ UNCHANGED <<config, COST, iter_, target_rec_measurements, observations,
                   ask_fidelity, samples, idx, measurement, passes, calls, phase>>

\* iter_ % NUM_CHEAP with NUM_CHEAP == 0
CadenceZero ==
    /\ pc = "head"
    /\ WhileCondition(COST, COST_BUDGET)
    /\ NUM_CHEAP = 0
    /\ passes < MaxPasses
    /\ passes' = passes + 1
    /\ Leave("ZeroDivisionError")
    /\ UNCHANGED <<config, COST, iter_, target_rec_measurements, observations,
                   ask_fidelity, samples, idx, measurement, calls, phase>>

\* the pass begins: planner.set_ask_fidelity(...)
SetAskFidelity ==
    /\ pc = "head"
    /\ WhileCondition(COST, COST_BUDGET)
    /\ NUM_CHEAP # 0
    /\ passes < MaxPasses
    /\ passes' = passes + 1
    /\ ask_fidelity' = FidelitySchedule(iter_, NUM_CHEAP)
    /\ pc' = "recommend"
    /\ UNCHANGED <<config, COST, iter_, target_rec_measurements, observations,
                   samples, idx, measurement, outcome, calls, phase>>

\* samples = planner.recommend(campaign.observations)
Recommend ==
    /\ pc = "recommend"
    /\ \E batch \in RecommendBatches(ask_fidelity) :
        /\ samples' = batch
        /\ pc' = IF batch = <<>> THEN "check" ELSE "for"
        /\ calls' = [calls EXCEPT !.recommend = @ + 1,
                                  !.batches = Append(@, Len(batch))]
    /\ idx' = 1
    /\ UNCHANGED <<config, COST, iter_, target_rec_measurements, observations,
                   ask_fidelity, measurement, outcome, passes, phase>>

\* variant: the exception of planner.recommend is caught and the loop goes on
RecommendFailsSwallowed ==
    /\ pc = "recommend"
    /\ calls' = [calls EXCEPT !.recommend = @ + 1]
    /\ pc' = "head"
    /\ outcome' = "PlannerError"
    /\ UNCHANGED <<config, COST, iter_, target_rec_measurements, observations,
                   ask_fidelity, samples, idx, measurement, passes, phase>>

\* planner.recommend raises
RecommendFails ==
    /\ pc = "recommend"
    /\ calls' = [calls EXCEPT !.recommend = @ + 1]
    /\ Leave("PlannerError")
    /\ UNCHANGED <<config, COST, iter_, target_rec_measurements, observations,
                   ask_fidelity, samples, idx, measurement, passes, phase>>

\* variant: iter_ advances once per pass, after the last sample of the batch
MeasureSamplePerPass ==
    /\ pc = "for"
    /\ LET sample == samples[idx]
           m == Measure(sample.params, sample.s)
       IN /\ m.err = ""
          /\ measurement' = Bound(m.value)
          /\ observations' = AddObservation(observations, sample, m.value)
          /\ COST' = CostAfterObservation(COST, sample.s)
    /\ iter_' = IF idx = Len(samples) THEN iter_ + 1 ELSE iter_
    /\ idx' = idx + 1
    /\ pc' = AfterSample(idx, samples)
    /\ calls' = [calls EXCEPT !.measure = @ + 1]
    /\ UNCHANGED <<config, target_rec_measurements, ask_fidelity, samples,
                   outcome, passes, phase>>

\* one turn of `for sample in samples`, measure returning a value
MeasureSample ==
    /\ pc = "for"
    /\ LET sample == samples[idx]
           m == Measure(sample.params, sample.s)
       IN /\ m.err = ""
          /\ measurement' = Bound(m.value)
          /\ observations' = AddObservation(observations, sample, m.value)
          /\ COST' = CostAfterObservation(COST, sample.s)
    /\ iter_' = iter_ + 1
    /\ idx' = idx + 1
    /\ pc' = AfterSample(idx, samples)
    /\ calls' = [calls EXCEPT !.measure = @ + 1]
    /\ UNCHANGED <<config, target_rec_measurements, ask_fidelity, samples,
                   outcome, passes, phase>>

\* one turn of `for sample in samples`, measure raising
MeasureFails ==
    /\ pc = "for"
    /\ LET sample == samples[idx]
           m == Measure(sample.params, sample.s)
       IN /\ m.err # ""
          /\ Leave(m.err)
    /\ calls' = [calls EXCEPT !.measure = @ + 1]
    /\ UNCHANGED <<config, COST, iter_, target_rec_measurements, observations,
                   ask_fidelity, samples, idx, measurement, passes, phase>>

\* variant: the greedy recommendation is also recorded as an observation
GreedyCommitRecording(rec_sample, rec_measurement) ==
    /\ target_rec_measurements' = Append(target_rec_measurements, rec_measurement)
    /\ observations' = Append(observations, <<rec_sample, rec_measurement>>)
    /\ iter_' = iter_ + 1
    /\ IF GreedyConverged(rec_measurement)
       THEN Leave("CONVERGED")
       ELSE pc' = "head" /\ outcome' = outcome
    /\ UNCHANGED COST

\* variant: the pass that converges does not enter its measurement in the trace
GreedyCommitNoTraceOnBreak(rec_sample, rec_measurement) ==
    /\ IF GreedyConverged(rec_measurement)
       THEN /\ Leave("CONVERGED")
            /\ UNCHANGED target_rec_measurements
       ELSE /\ pc' = "head" /\ outcome' = outcome
            /\ target_rec_measurements' =
                   Append(target_rec_measurements, rec_measurement)
    /\ UNCHANGED <<COST, iter_, observations>>

\* the greedy branch once rec_sample is measured: record it in the trace, compare
GreedyCommit(rec_sample, rec_measurement) ==
    /\ target_rec_measurements' = Append(target_rec_measurements, rec_measurement)
    /\ IF GreedyConverged(rec_measurement)
       THEN Leave("CONVERGED")
       ELSE pc' = "head" /\ outcome' = outcome
    /\ UNCHANGED <<COST, iter_, observations>>

\* if campaign.num_obs > NUM_INIT_DESIGN: greedy recommendation, measured
GreedyStep ==
    /\ pc = "check"
    /\ InSteadyState(Len(observations), NUM_INIT_DESIGN)
    /\ \E rec \in TargetFidelityBatches(1) :
        LET rec_sample == rec[1]
            m == Measure(rec_sample.params, rec_sample.s)
        IN /\ m.err = ""
           /\ GreedyCommit(rec_sample, m.value)
    /\ calls' = [calls EXCEPT !.target = @ + 1, !.measure = @ + 1]
    /\ phase' = "STEADY_STATE"
    /\ UNCHANGED <<config, ask_fidelity, samples, idx, measurement, passes>>

\* the greedy branch, measure(rec_sample, rec_sample.s) raising
GreedyMeasureFails ==
    /\ pc = "check"
    /\ InSteadyState(Len(observations), NUM_INIT_DESIGN)
    /\ \E rec \in TargetFidelityBatches(1) :
        LET rec_sample == rec[1]
            m == Measure(rec_sample.params, rec_sample.s)
        IN /\ m.err # ""
           /\ Leave(m.err)
    /\ calls' = [calls EXCEPT !.target = @ + 1, !.measure = @ + 1]
    /\ phase' = "STEADY_STATE"
    /\ UNCHANGED <<config, COST, iter_, target_rec_measurements, observations,
                   ask_fidelity, samples, idx, measurement, passes>>

\* the greedy branch, planner.recommend_target_fidelity raising
GreedyPlannerFails ==
    /\ pc = "check"
    /\ InSteadyState(Len(observations), NUM_INIT_DESIGN)
    /\ Leave("PlannerError")
    /\ calls' = [calls EXCEPT !.target = @ + 1]
    /\ phase' = "STEADY_STATE"
    /\ UNCHANGED <<config, COST, iter_, target_rec_measurements, observations,
                   ask_fidelity, samples, idx, measurement, passes>>

\* else: target_rec_measurements.append(measurement), compare
InitDesignStep ==
    /\ pc = "check"
    /\ ~InSteadyState(Len(observations), NUM_INIT_DESIGN)
    /\ measurement.bound
    /\ target_rec_measurements' = Append(target_rec_measurements, measurement.value)
    /\ IF measurement.value = min_hse06_bandgap /\ samples = <<>>
       THEN Leave("IndexError")
       ELSE IF InitDesignConverged(measurement.value, samples)
       THEN Leave("CONVERGED")
       ELSE pc' = "head" /\ outcome' = outcome
    /\ phase' = "INIT_DESIGN"
    /\ UNCHANGED <<config, COST, iter_, observations, ask_fidelity, samples, idx,
                   measurement, passes, calls>>

\* else: target_rec_measurements.append(measurement) with measurement never assigned
InitDesignNameError ==
    /\ pc = "check"
    /\ ~InSteadyState(Len(observations), NUM_INIT_DESIGN)
    /\ ~measurement.bound
    /\ Leave("NameError")
    /\ phase' = "INIT_DESIGN"
    /\ UNCHANGED <<config, COST, iter_, target_rec_measurements, observations,
                   ask_fidelity, samples, idx, measurement, passes, calls>>

Next ==
    \/ BudgetExhausted
    \/ CadenceZero
    \/ SetAskFidelity
    \/ Recommend
    \/ RecommendFails
    \/ MeasureSample
    \/ MeasureFails
    \/ GreedyStep
    \/ GreedyMeasureFails
    \/ GreedyPlannerFails
    \/ InitDesignStep
    \/ InitDesignNameError

Spec == Init /\ [][Next]_vars

\* the cell runs to its end: no step that can be taken is put off for ever
FairSpec == Spec /\ WF_vars(Next)

(* ------------------------- derived quantities ------------------------- *)

\* exceptions that end the loop
OracleErrors == {"KeyError", "UnboundLocalError"}

Failures == OracleErrors \cup {"PlannerError", "NameError", "IndexError",
                               "ZeroDivisionError"}

\* the sum of the unit costs of the observations of a ledger
RECURSIVE CostSum(_)
CostSum(obs) ==
    IF obs = <<>> THEN 0
    ELSE UnitCost(obs[Len(obs)][1].s) + CostSum(SubSeq(obs, 1, Len(obs) - 1))

Last(seq) == seq[Len(seq)]

\* every entry of the ledger holds the value measure returns for its sample
Paired(obs) ==
    \A i \in 1..Len(obs) :
        LET m == Measure(obs[i][1].params, obs[i][1].s)
        IN m.err = "" /\ obs[i][2] = m.value

(* ------------------------------- claims ------------------------------- *)

C2_CostIsSumOfUnitCosts ==
    pc = "head" => COST = CostSum(observations)

\* C3: for a cadence k >= 1 the fidelity requested before recommend is the high
\* one iff iter_ mod k = 0 and the low one otherwise; k = 1 always requests high.
C3_FidelityCadence ==
    (pc = "recommend" /\ NUM_CHEAP >= 1) =>
        /\ ask_fidelity = HIGH <=> iter_ % NUM_CHEAP = 0
        /\ ask_fidelity = LOW <=> iter_ % NUM_CHEAP # 0
        /\ NUM_CHEAP = 1 => ask_fidelity = HIGH

\* C3 witness: high fidelity is requested again at a later multiple of the cadence
C3_Witness ==
    pc = "recommend" /\ NUM_CHEAP = 2 /\ iter_ = 2 /\ ask_fidelity = HIGH

\* C4: in the steady-state phase, a greedy recommendation whose measurement equals
\* the target ends the loop as CONVERGED in that pass, whatever budget remains,
\* and no planner or oracle call follows.
C4_GreedyHitConverges ==
    [][/\ (/\ pc = "check"
           /\ Len(observations) > NUM_INIT_DESIGN
           /\ target_rec_measurements' =
                  Append(target_rec_measurements, min_hse06_bandgap))
          => (pc' = "done" /\ outcome' = "CONVERGED")
       /\ outcome = "CONVERGED" => calls' = calls]_vars

\* C4 witness: converged by the greedy branch with the whole budget left
C4_Witness ==
    /\ outcome = "CONVERGED"
    /\ phase = "STEADY_STATE"
    /\ Last(target_rec_measurements) = min_hse06_bandgap
    /\ COST_BUDGET - COST = 50

\* C5: when the oracle fails the loop ends, and the ledgers hold exactly what
\* was committed before: every recorded sample has its measurement and its
\* cost update.
C5_OracleFailureKeepsLedgers ==
    outcome \in OracleErrors =>
        /\ pc = "done"
        /\ Paired(observations)
        /\ iter_ = Len(observations)
        /\ COST = CostSum(observations)

\* C6: with budget 50, cadence 8, unit costs 1 and 10, initial-design count 10
\* and one sample per pass: iteration 0 requests high fidelity and leaves the
\* cost at 10, iterations 1 to 7 request low fidelity and the cost is 17 after
\* iteration 7, iteration 8 requests high fidelity again.
C6_NotebookScenario ==
    (COST_BUDGET = 50 /\ NUM_CHEAP = 8 /\ NUM_INIT_DESIGN = 10
        /\ LOW_COST = 1 /\ HIGH_COST = 10) =>
        /\ (pc = "recommend" /\ passes = iter_ + 1 /\ iter_ <= 8) =>
               (ask_fidelity = HIGH <=> iter_ \in {0, 8})
        /\ (pc = "head" /\ passes = iter_ /\ iter_ = 1) => COST = 10
        /\ (pc = "head" /\ passes = iter_ /\ iter_ = 8
               /\ \A i \in 2..8 : observations[i][1].s = LOW) => COST = 17

\* C7: the greedy target-fidelity step changes only the trace: nothing is
\* appended to the observation ledger, and the accumulated cost and the
\* iteration index stay as they are.
C7_GreedyStepFrame ==
    [][(pc = "check" /\ Len(observations) > NUM_INIT_DESIGN) =>
           /\ observations' = observations
           /\ COST' = COST
           /\ iter_' = iter_]_vars

\* C7 witness: a greedy recommendation was measured and entered in the trace
C7_Witness ==
    /\ phase = "STEADY_STATE"
    /\ pc = "head"
    /\ calls.target >= 1
    /\ Len(target_rec_measurements) >= 1
    /\ Len(observations) = iter_

C9_CostMonotone ==
    /\ COST = 0
    /\ [](COST >= 0)
    /\ [][COST' >= COST]_vars

\* C9 witness: observations were recorded over more than one pass
C9_Witness ==
    /\ passes >= 2
    /\ Len(observations) >= 2
    /\ COST >= 0

\* C10: a pass takes the greedy branch exactly when the observation count after
\* its batch exceeds the initial-design count; once a pass has taken it, every
\* later pass takes it; and a run without an exception stops only as
\* BUDGET_EXHAUSTED (cost at or above the budget) or CONVERGED.
C10_PhaseMachine ==
    /\ [][(pc = "check" /\ pc' # "check") =>
              (phase' = "STEADY_STATE" <=> Len(observations) > NUM_INIT_DESIGN)]_vars
    /\ [][phase = "STEADY_STATE" => phase' = "STEADY_STATE"]_vars
    /\ [](pc = "done" <=> outcome \in {"BUDGET_EXHAUSTED", "CONVERGED"} \cup Failures)
    /\ [](outcome = "BUDGET_EXHAUSTED" => COST >= COST_BUDGET)
    /\ [](outcome = "CONVERGED" => Last(target_rec_measurements) = min_hse06_bandgap)
    /\ []((pc # "done" /\ ~(pc = "head" /\ passes = MaxPasses)) => ENABLED Next)

\* C10 witness: a pass in the initial design, then the greedy branch, then converged
C10_Witness ==
    /\ NUM_INIT_DESIGN = 1
    /\ Len(observations) = 2
    /\ Len(target_rec_measurements) = 2
    /\ phase = "STEADY_STATE"
    /\ outcome = "CONVERGED"

\* a sequence is a prefix of another
IsPrefix(s, u) == Len(s) <= Len(u) /\ SubSeq(u, 1, Len(s)) = s

\* C11: with an invalid configuration (cadence below 1, negative budget) no
\* iteration runs: no planner call, no oracle call and no ledger update ever
\* happens.
C11_InvalidConfigurationRejected ==
    (NUM_CHEAP < 1 \/ COST_BUDGET < 0) =>
        /\ passes = 0
        /\ calls.recommend = 0 /\ calls.target = 0 /\ calls.measure = 0
        /\ observations = <<>>
        /\ target_rec_measurements = <<>>
        /\ COST = 0

\* C12: the observation ledger is append-only and chronological: the ledger
\* before a step is a prefix of the ledger after it, so the ledger of an earlier
\* state is a prefix of the ledger of every later state.
C12_LedgerAppendOnly ==
    [][IsPrefix(observations, observations')]_vars

\* C12 witness: the ledger grew over more than one pass
C12_Witness ==
    /\ passes >= 2
    /\ Len(observations) >= 3
    /\ pc = "head"

\* the sum of a sequence of numbers
RECURSIVE SeqSum(_)
SeqSum(seq) == IF seq = <<>> THEN 0 ELSE Head(seq) + SeqSum(Tail(seq))

\* the planner is about to be called: recommend, or recommend_target_fidelity
AtPlannerCall ==
    \/ pc = "recommend"
    \/ pc = "check" /\ Len(observations) > NUM_INIT_DESIGN

\* every sample of every batch returned so far is in the ledger with its measurement
AllBatchesRecorded ==
    /\ Len(observations) = SeqSum(calls.batches)
    /\ Paired(observations)
    /\ idx = Len(samples) + 1
    /\ \A i \in 1..Len(samples) :
           observations[Len(observations) - Len(samples) + i][1] = samples[i]

\* no planner call is made while a batch is being measured
NoPlannerCallInsideBatch ==
    [][pc = "for" =>
           calls'.recommend = calls.recommend /\ calls'.target = calls.target]_vars

\* C13: at every call of the planner, every sample of every batch returned
\* earlier is recorded in the ledger with its measurement and its cost update,
\* and no planner call happens between the measurements of one batch.
C13_PlannerSeesCommittedIterations ==
    /\ [](AtPlannerCall => AllBatchesRecorded /\ COST = CostSum(observations))
    /\ NoPlannerCallInsideBatch

\* the part of C13 that does not speak of cost
C13_Linearized ==
    /\ [](AtPlannerCall => AllBatchesRecorded)
    /\ NoPlannerCallInsideBatch

\* C14: a failure of planner.recommend is fatal: the loop is left at once and
\* for good (no retry, no later call), no oracle measurement is made in that
\* pass, and the ledger and the accumulated cost keep their values.
C14_PlannerFailureIsFatal ==
    /\ [][(pc = "recommend" /\ outcome' = "PlannerError") =>
              /\ pc' = "done"
              /\ observations' = observations
              /\ COST' = COST
              /\ iter_' = iter_
              /\ calls'.measure = calls.measure]_vars
    /\ [](outcome = "PlannerError" => pc = "done")
    /\ [][outcome = "PlannerError" =>
              calls' = calls /\ observations' = observations /\ COST' = COST]_vars
    /\ []((outcome = "PlannerError" /\ calls.recommend > Len(calls.batches)) =>
              /\ Len(observations) = SeqSum(calls.batches)
              /\ calls.measure = SeqSum(calls.batches) + calls.target)

\* C14 witness: recommend failed in the second pass, the ledger of the first kept
C14_Witness ==
    /\ outcome = "PlannerError"
    /\ calls.recommend = 2
    /\ Len(calls.batches) = 1
    /\ Len(observations) = 2
    /\ pc = "done"

\* C15: in every initial-design pass the value appended to the trace is a
\* measurement recorded in the ledger during that same pass, for every batch the
\* planner may return, the empty one included: no measurement of an earlier pass
\* and no undefined value is used.
C15_InitDesignTraceIsFresh ==
    /\ [][(/\ pc = "check"
           /\ ~(Len(observations) > NUM_INIT_DESIGN)
           /\ Len(target_rec_measurements') = Len(target_rec_measurements) + 1)
          => /\ samples # <<>>
             /\ Last(target_rec_measurements') = Last(observations)[2]]_vars
    /\ [](outcome # "NameError")

\* C16: planner.recommend is called only while the accumulated cost is strictly
\* below the budget, and once the cost is at or above the budget at a loop head
\* no planner call, oracle call or ledger update follows.
C16_RecommendOnlyBelowBudget ==
    /\ [](pc = "recommend" => COST < COST_BUDGET)
    /\ [][calls'.recommend > calls.recommend => COST < COST_BUDGET]_vars
    /\ [][((pc = "head" /\ COST >= COST_BUDGET) \/ outcome = "BUDGET_EXHAUSTED") =>
              /\ calls' = calls
              /\ observations' = observations
              /\ target_rec_measurements' = target_rec_measurements
              /\ COST' = COST]_vars

\* C16 witness: recommend is about to be called again, the cost below the budget
C16_Witness ==
    /\ pc = "recommend"
    /\ passes >= 2
    /\ calls.recommend >= 1
    /\ COST < COST_BUDGET

\* C16 witness of the other half: the loop left at its head with nothing called
C16_WitnessExhausted ==
    /\ outcome = "BUDGET_EXHAUSTED"
    /\ COST >= COST_BUDGET
    /\ calls.recommend = 0

\* C17: at every loop head iter_ equals the number of observations appended to
\* the ledger (it advances once per measured sample), so with a planner that
\* returns b samples on every pass the p-th pass (p from 0) requests high
\* fidelity iff (b * p) mod k = 0.
C17_CadenceCountsObservations ==
    /\ pc = "head" => iter_ = Len(observations)
    /\ (pc = "recommend" /\ NUM_CHEAP >= 1) =>
           \A b \in 0..MaxBatch :
               (\A i \in 1..Len(calls.batches) : calls.batches[i] = b) =>
                   (ask_fidelity = HIGH <=> (b * (passes - 1)) % NUM_CHEAP = 0)

\* C17 witness: batches of two and cadence 2: the second pass requests high
\* fidelity, which a cadence counted in passes would not
C17_Witness ==
    /\ pc = "recommend"
    /\ NUM_CHEAP = 2
    /\ calls.batches = <<2>>
    /\ passes = 2
    /\ iter_ = 2
    /\ ask_fidelity = HIGH

\* C18: every pass that completes without an exception appends exactly one
\* entry to the trace, the pass that converges included: at every loop head,
\* and when the loop has converged, the trace is as long as the passes made,
\* whatever the batch sizes and the phase.
C18_OneTraceEntryPerPass ==
    /\ [](pc = "head" => Len(target_rec_measurements) = passes)
    /\ [](outcome = "CONVERGED" => Len(target_rec_measurements) = passes)
    /\ [][(pc = "check" /\ (pc' = "head" \/ outcome' = "CONVERGED")) =>
              Len(target_rec_measurements') = Len(target_rec_measurements) + 1]_vars
    /\ [][pc # "check" => target_rec_measurements' = target_rec_measurements]_vars

\* C18 witness: three passes with batches of different sizes, the last converging
C18_Witness ==
    /\ outcome = "CONVERGED"
    /\ phase = "STEADY_STATE"
    /\ passes = 3
    /\ Len(target_rec_measurements) = 3
    /\ Len(observations) # 3

====
